---- MODULE Spec2Model ----
(***************************************************************************)
(* streamlit-chat-prompt: the image size reducer _process_image and the    *)
(* prompt wrapper around the frontend component.                            *)
(*                                                                         *)
(* A Python str is a sequence of one-character strings.  The imaging       *)
(* library is the environment: what a payload decodes to is a fact of the  *)
(* input, and the byte count of each JPEG encode is chosen by the encoder. *)
(***************************************************************************)
EXTENDS Integers, Sequences, FiniteSets, TLC

VARIABLES
    pc,            \* position inside _process_image
    image_str,     \* its argument: the data URI
    max_b64_size,  \* its argument: the budget
    img,           \* the decoded image (Image.open)
    i,             \* index of the compression-only loop
    attempt,       \* index of the scale loop
    quality,       \* JPEG quality of the current/next encode
    scale_factor,  \* <<num, den>>: the float scale_factor as a fraction
    attempts,      \* every img.save call made so far in this call, in order
    result,        \* the value returned by _process_image
    error,         \* the exception raised out of _process_image
    version,       \* which revision of the package is imported
    singleton_key, \* the module global _prompt_main_singleton_key
    session_state, \* st.session_state[f"chat_prompt_{key}_prev_uuid"], per key
    ppc,           \* position inside prompt
    key,           \* prompt's argument key
    main_bottom,   \* prompt's argument main_bottom
    max_image_size,  \* prompt's argument max_image_size
    component_value, \* what _component_func returned
    images,        \* the list of processed images being built
    idx,           \* index of the loop over component_value["images"]
    pinned,        \* the pinning CSS was emitted in this call (st.markdown)
    invoked,       \* _component_func was called in this call
    toasts,        \* number of st.toast calls in this call
    failed,        \* _process_image returned None in this call
    p_result,      \* the value returned by prompt
    p_error,       \* the exception raised out of prompt
    subject,       \* a value handed to a pure function of the package
    observed,      \* what that function returned
    previous,      \* the call of prompt that ended last: its key, uuid, outcome
    threads        \* per script thread: its position in prompt's guard, its key

rvars == <<pc, image_str, max_b64_size, img, i, attempt, quality,
           scale_factor, attempts, result, error>>

\* what no call of prompt or _process_image changes
fixed == <<version, subject, observed, previous, threads>>

pvars == <<fixed, singleton_key, session_state, ppc, key, main_bottom,
           max_image_size, component_value, images, idx, pinned, invoked, toasts,
           failed, p_result, p_error>>

vars == <<rvars, pvars>>

\* ------------------------------------------------------------------ bounds

MaxPayloadLen == 8
MaxRawTriples == 2

\* --------------------------------------------------------------- constants

\* Python's None, as a return value
None == [kind |-> "None"]
\* no value returned (yet)
NoResult == [kind |-> "NoResult"]
\* no image decoded (yet)
NoImage == [valid |-> FALSE, mode |-> "", width |-> 0, height |-> 0]
\* a payload that is not an image
Corrupt == [valid |-> FALSE, mode |-> "", width |-> 0, height |-> 0]
NoError == "NoError"

\* ----------------------------------------------------------------- strings

RECURSIVE IndexOf(_, _, _)
\* first position >= k of character c in s, 0 when absent
IndexOf(s, c, k) ==
    IF k > Len(s) THEN 0
    ELSE IF s[k] = c THEN k
    ELSE IndexOf(s, c, k + 1)

RECURSIVE Split(_, _)
\* str.split(sep) for a one-character separator
Split(s, sep) ==
    LET k == IndexOf(s, sep, 1)
    IN  IF k = 0 THEN <<s>>
        ELSE <<SubSeq(s, 1, k - 1)>> \o Split(SubSeq(s, k + 1, Len(s)), sep)

Fill(n, c) == [k \in 1..n |-> c]

StrData == <<"d", "a", "t", "a">>
StrImagePng == <<"i", "m", "a", "g", "e", "/", "p", "n", "g">>
StrImageGif == <<"i", "m", "a", "g", "e", "/", "g", "i", "f">>
StrImageJpeg == <<"i", "m", "a", "g", "e", "/", "j", "p", "e", "g">>
StrBase64 == <<"b", "a", "s", "e", "6", "4">>

\* f"data:{type};{format},{data}"
DataUri(type, format, data) ==
    StrData \o <<":">> \o type \o <<";">> \o format \o <<",">> \o data

ImageData(type, format, data) ==
    [kind |-> "ImageData", type |-> type, format |-> format, data |-> data]

\* image_str.split(";"), parts[0].split(":")[1], parts[1].split(",")[0] and [1];
\* ok is FALSE where an index is out of range (IndexError)
ParseDataUri(s) ==
    LET parts == Split(s, ";")
    IN  IF Len(parts) < 2 \/ Len(Split(parts[1], ":")) < 2
           \/ Len(Split(parts[2], ",")) < 2
        THEN [ok |-> FALSE]
        ELSE [ok |-> TRUE,
              type |-> Split(parts[1], ":")[2],
              format |-> Split(parts[2], ",")[1],
              data |-> Split(parts[2], ",")[2]]

\* ------------------------------------------------------------ the encoder

\* len(base64.b64encode(b)) for n = len(b) bytes
B64Len(n) == 4 * ((n + 2) \div 3)

\* base64.b64encode(output.getvalue()).decode("utf-8") of an n-byte JPEG
B64Encode(n) == Fill(B64Len(n), "A")

\* the byte counts the JPEG encoder may produce: any, in a direct call; the
\* calls made by prompt are explored with two of them
RawSizes ==
    IF ppc = "idle" THEN {3 * k : k \in 1..MaxRawTriples} ELSE {3, 6}

\* the modes the JPEG writer accepts; img.save raises OSError for the others
JpegAccepts(mode) == mode \in {"1", "L", "RGB", "RGBX", "CMYK", "YCbCr"}

\* (mutant) the budget excludes its boundary
StrictlyUnder(size, max) == size < max

\* b64_size <= max_b64_size, new_size <= max_b64_size
WithinBudget(size, max) == size <= max

\* (mutant) the size of the raw JPEG bytes is measured
MeasuredRaw(new_data, raw) == raw

\* new_size = len(new_data): the length of the base64 text
MeasuredSize(new_data, raw) == Len(new_data)

\* (mutant) the ladder runs upwards
ReversedQualities == <<80, 90, 100>>

\* enumerate([100, 90, 80])
Qualities == <<100, 90, 80>>

\* (mutant) one scale round too many
SixRounds == 5 + 1

\* range(5)
ScaleRounds == 5
InitialScaleQuality == 95

\* scale_factor = 0.95, scale_factor *= 0.95: the float is carried as the
\* fraction (19/20)^k it approximates
InitialScale == <<19, 20>>
NextScale(sf) == <<sf[1] * 19, sf[2] * 20>>

\* the binary64 value of scale_factor against the fraction: 0.95 and
\* 0.95 * 0.95 are the doubles nearest to 0.95 and 0.9025, the later products
\* (0.8573749999999999, 0.8145062499999999, 0.7737809374999999) lie one unit
\* in the last place below the exact power
FactorBelow(sf) == sf[2] >= 20 * 20 * 20

\* floor(x * sf[1] / sf[2]), the product taken in two steps to stay in range
ExactScaled(x, sf) ==
    LET y == x * (sf[1] \div 19)
    IN  (y \div sf[2]) * 19 + ((y % sf[2]) * 19) \div sf[2]

\* (mutant) each round scales the previous round's rounded size
RECURSIVE Compounded(_, _)
Compounded(x, sf) ==
    IF sf[2] = 1 THEN x
    ELSE Compounded((x * 19) \div 20, <<sf[1] \div 19, sf[2] \div 20>>)

\* int(x * scale_factor) in binary64: the floor of the exact product, except
\* that an integral exact product under a factor below its power is missed
\* by one (int(8000 * 0.8573749999999999) = 6858)
Scaled(x, sf) ==
    IF FactorBelow(sf) /\ x % sf[2] = 0
    THEN ExactScaled(x, sf) - 1
    ELSE ExactScaled(x, sf)
\* (mutant) the quality drops by a fixed step
QualityLessFive(q) == q - 5

\* int(quality * 0.95)
NextQuality(q) == (q * 19) \div 20

\* (mutant) a re-encoded payload keeps the media type it came with
KeepsInputType(new_data) ==
    ImageData(ParseDataUri(image_str).type, ParseDataUri(image_str).format,
              new_data)

\* ImageData(type="image/jpeg", format="base64", data=new_data)
ReencodedImage(new_data) == ImageData(StrImageJpeg, StrBase64, new_data)

\* resized_img.mode in ("RGBA", "LA"): paste onto a white RGB background
FlattenedMode(mode) == IF mode \in {"RGBA", "LA"} THEN "RGB" ELSE mode

Attempt(phase, q, mode, w, h, encoded, size) ==
    [phase |-> phase, quality |-> q, mode |-> mode, width |-> w, height |-> h,
     encoded |-> encoded, size |-> size]

\* ------------------------------------------------------------ the inputs

MediaTypes == {StrImagePng, StrImageGif}
StrUtf8 == <<"u", "t", "f", "8">>
Formats == {StrBase64, StrUtf8}
PayloadChars == {"A", "L", "R", "a", "P", "W", "Q"}
Payloads == {Fill(n, c) : n \in 1..MaxPayloadLen, c \in PayloadChars}
ImageStrs == {DataUri(t, f, d) : t \in MediaTypes, f \in Formats, d \in Payloads}

Image(mode, w, h) == [valid |-> TRUE, mode |-> mode, width |-> w, height |-> h]

\* (mutant) a failed decode is swallowed
OpenNeverFails(decoded) == FALSE

\* Image.open raises on bytes that are no image
OpenFails(decoded) == ~decoded.valid

\* Image.open(io.BytesIO(base64.b64decode(image_data))): the image a payload
\* holds is decided by the payload; here by its first character
DecodedImage(data) ==
    IF data = <<>> THEN Corrupt
    ELSE CASE data[1] = "A" -> Image("RGB", 41, 20)
           [] data[1] = "L" -> Image("L", 41, 20)
           [] data[1] = "R" -> Image("RGBA", 41, 20)
           [] data[1] = "a" -> Image("LA", 41, 20)
           [] data[1] = "P" -> Image("P", 41, 20)
           [] data[1] = "W" -> Image("RGB", 8000, 6000)
           [] OTHER -> Corrupt

\* (mutant) the compression-only pass encodes a reduced copy
PassImageScaled(image) ==
    Image(image.mode, Scaled(image.width, InitialScale),
          Scaled(image.height, InitialScale))

\* line 99: img.save encodes img itself in the compression-only pass
PassImage(image) == image
Budgets == {4, 7}

\* ------------------------------------------------------- _process_image

\* lines 77-90: the value returned before any decoding, NoResult when the
\* payload is over the budget (or the string does not parse)
EarlyReturn(s, max) ==
    LET p == ParseDataUri(s)
    IN  IF p.ok /\ WithinBudget(Len(p.data), max)
        THEN ImageData(p.type, p.format, p.data)
        ELSE NoResult

\* lines 77-94: parse, size check, early return, decode
ProcessImageBegin(s, max) ==
    /\ pc = "idle"
    /\ image_str' = s
    /\ max_b64_size' = max
    /\ attempts' = <<>>
    /\ i' = 0
    /\ attempt' = 0
    /\ quality' = 0
    /\ scale_factor' = <<1, 1>>
    /\ LET p == ParseDataUri(s)
       IN  IF ~p.ok
           THEN /\ pc' = "raised"
                /\ error' = "IndexError"
                /\ result' = NoResult
                /\ img' = NoImage
           ELSE IF EarlyReturn(s, max) # NoResult
           THEN /\ pc' = "returned"
                /\ result' = EarlyReturn(s, max)
                /\ error' = NoError
                /\ img' = NoImage
           ELSE IF OpenFails(DecodedImage(p.data))
           THEN /\ pc' = "raised"
                /\ error' = "DecodeError"
                /\ result' = NoResult
                /\ img' = NoImage
           ELSE /\ pc' = "compress"
                /\ img' = DecodedImage(p.data)
                /\ result' = NoResult
                /\ error' = NoError

\* lines 97-108 (one iteration), and lines 111-112 after the last one
CompressPass ==
    /\ pc = "compress"
    /\ i < Len(Qualities)
    /\ LET q == Qualities[i + 1]
       IN  IF ~JpegAccepts(img.mode)
           THEN /\ attempts' = Append(attempts,
                     Attempt("compress", q, img.mode, img.width, img.height, FALSE, 0))
                /\ pc' = "raised"
                /\ error' = "OSError"
                /\ quality' = q
                /\ UNCHANGED <<i, result, scale_factor>>
           ELSE \E raw \in RawSizes :
                LET new_data == B64Encode(raw)
                    new_size == MeasuredSize(new_data, raw)
                IN  /\ attempts' = Append(attempts,
                         Attempt("compress", q, img.mode, PassImage(img).width,
                                 PassImage(img).height, TRUE, Len(new_data)))
                    /\ error' = NoError
                    /\ IF WithinBudget(new_size, max_b64_size)
                       THEN /\ result' = ReencodedImage(new_data)
                            /\ pc' = "returned"
                            /\ quality' = q
                            /\ UNCHANGED <<i, scale_factor>>
                       ELSE /\ i' = i + 1
                            /\ result' = NoResult
                            /\ IF i + 1 = Len(Qualities)
                               THEN /\ pc' = "scale"
                                    /\ scale_factor' = InitialScale
                                    /\ quality' = InitialScaleQuality
                               ELSE /\ pc' = "compress"
                                    /\ quality' = q
                                    /\ UNCHANGED scale_factor
    /\ UNCHANGED <<image_str, max_b64_size, img, attempt>>
    /\ UNCHANGED pvars

\* lines 115-139 (one iteration)
ScaleRound ==
    /\ pc = "scale"
    /\ attempt < ScaleRounds
    /\ LET new_width == Scaled(img.width, scale_factor)
           new_height == Scaled(img.height, scale_factor)
           mode == FlattenedMode(img.mode)
       IN  IF ~JpegAccepts(mode)
           THEN /\ attempts' = Append(attempts,
                     Attempt("scale", quality, mode, new_width, new_height, FALSE, 0))
                /\ pc' = "raised"
                /\ error' = "OSError"
                /\ UNCHANGED <<attempt, result, scale_factor, quality>>
           ELSE \E raw \in RawSizes :
                LET new_data == B64Encode(raw)
                    new_size == MeasuredSize(new_data, raw)
                IN  /\ attempts' = Append(attempts,
                         Attempt("scale", quality, mode, new_width, new_height,
                                 TRUE, Len(new_data)))
                    /\ error' = NoError
                    /\ IF WithinBudget(new_size, max_b64_size)
                       THEN /\ result' = ReencodedImage(new_data)
                            /\ pc' = "returned"
                            /\ UNCHANGED <<attempt, scale_factor, quality>>
                       ELSE /\ scale_factor' = NextScale(scale_factor)
                            /\ quality' = NextQuality(quality)
                            /\ attempt' = attempt + 1
                            /\ result' = NoResult
                            /\ pc' = IF attempt + 1 = ScaleRounds
                                     THEN "exhausted" ELSE "scale"
    /\ UNCHANGED <<image_str, max_b64_size, img, i>>
    /\ UNCHANGED pvars

\* (mutant) the last attempt is returned although it is over the budget
LastAttemptResult(last) == ImageData(StrImageJpeg, StrBase64, Fill(last.size, "A"))

\* the value returned when both loops are exhausted
ExhaustedResult(last) == None

\* lines 141-142
ReturnFailure ==
    /\ pc = "exhausted"
    /\ result' = ExhaustedResult(attempts[Len(attempts)])
    /\ pc' = "returned"
    /\ UNCHANGED <<image_str, max_b64_size, img, i, attempt, quality,
                   scale_factor, attempts, error>>
    /\ UNCHANGED pvars

\* ------------------------------------------------- direct calls (Spec)

\* the frame of a finished _process_image call is dropped
DropFrame ==
    /\ pc' = "idle"
    /\ image_str' = <<>>
    /\ max_b64_size' = 0
    /\ img' = NoImage
    /\ i' = 0
    /\ attempt' = 0
    /\ quality' = 0
    /\ scale_factor' = <<1, 1>>
    /\ attempts' = <<>>
    /\ result' = NoResult
    /\ error' = NoError

\* _process_image(image_str=..., max_b64_size=...) on any input
Call ==
    /\ ppc = "idle"
    /\ \E s \in ImageStrs, max \in Budgets :
           ProcessImageBegin(s, max)
    /\ UNCHANGED pvars

\* the call has ended; the next one may start
Finish ==
    /\ ppc = "idle"
    /\ pc \in {"returned", "raised"}
    /\ DropFrame
    /\ UNCHANGED pvars

InitReducer ==
    /\ pc = "idle"
    /\ image_str = <<>>
    /\ max_b64_size = 0
    /\ img = NoImage
    /\ i = 0
    /\ attempt = 0
    /\ quality = 0
    /\ scale_factor = <<1, 1>>
    /\ attempts = <<>>
    /\ result = NoResult
    /\ error = NoError


\* ------------------------------------------------------------- prompt

\* None where a str or a uuid is optional
StrNone == "<None>"
\* the key is not in st.session_state
Absent == "<absent>"

Keys == {"", "a", "b"}
Uuids == {"u1", "u2"}
Messages == {"hi"}

\* truth value of an Optional[str]
Truthy(x) == x # StrNone /\ x # ""

\* x or ""
OrEmpty(x) == IF Truthy(x) THEN x ELSE ""

\* (mutant) the guard runs for every prompt
AlwaysGuarded(mb) == TRUE

\* if main_bottom: the guard, the registration and the pinning run
Guarded(mb) == mb

\* _prompt_main_singleton_key and _prompt_main_singleton_key != key
SingletonRejects(registered, k) == Truthy(registered) /\ registered # k

\* the template's PromptReturn(message=..., images=...)
PromptReturn(message, imgs) ==
    [kind |-> "PromptReturn", message |-> message, images |-> imgs]

\* the value of the argument default: None, a str or a PromptReturn
NoDefault == [kind |-> "None"]
StrDefault(x) == [kind |-> "str", value |-> x]

\* what _component_func returns: None or a dict
CvNone == [kind |-> "None"]
Cv(message, imgs, uuid) ==
    [kind |-> "dict", message |-> message, images |-> imgs, uuid |-> uuid]

\* template lines 173-191: the default payload sent to the frontend
DefaultValue(default) ==
    LET d == IF default.kind = "str"
             THEN PromptReturn(default.value, <<>>)
             ELSE default
    IN  IF d.kind = "None" THEN CvNone
        ELSE Cv(OrEmpty(d.message),
                [n \in 1..Len(d.images) |->
                    DataUri(d.images[n].type, d.images[n].format, d.images[n].data)],
                StrNone)

\* template lines 251-254: component_value and its uuid differs from the stored one
IsNewMessage(cv, prev) == cv.kind = "dict" /\ cv.uuid # prev

\* (mutant) the uuid of a submission is not stored
Unrecorded(st, k, uuid) == st

\* template line 256, current line 285: the uuid is stored as the previous one
Recorded(st, k, uuid) == [st EXCEPT ![k] = uuid]

\* line 176-177: the key's entry is created on first use
WithEntry(st, k) == IF st[k] = Absent THEN [st EXCEPT ![k] = StrNone] ELSE st

\* (mutant) the images processed before the failure are returned
PartialReturn(message, imgs) == PromptReturn(message, imgs)

\* what prompt returns when _process_image returned None (line 270)
FailureReturn(message, imgs) == None

\* the inputs of the prompt calls
BigRgb == DataUri(StrImagePng, StrBase64, Fill(5, "A"))
BigRgba == DataUri(StrImagePng, StrBase64, Fill(5, "R"))
PromptImageStrs == {BigRgb, BigRgba}
MaxImages == 2
ImageLists ==
    UNION {[1..n -> PromptImageStrs] : n \in 0..MaxImages}
PromptBudgets == {4}
Defaults ==
    {NoDefault, StrDefault("hi"),
     PromptReturn(StrNone, <<ImageData(StrImagePng, StrBase64, Fill(4, "A"))>>)}
Submissions ==
    {Cv(m, l, u) : m \in Messages, l \in ImageLists, u \in Uuids}

\* the frame of a finished prompt call is dropped
DropPromptFrame ==
    /\ ppc' = "idle"
    /\ key' = StrNone
    /\ main_bottom' = FALSE
    /\ max_image_size' = 0
    /\ component_value' = CvNone
    /\ images' = <<>>
    /\ idx' = 0
    /\ pinned' = FALSE
    /\ invoked' = FALSE
    /\ toasts' = 0
    /\ failed' = FALSE
    /\ p_result' = NoResult
    /\ p_error' = NoError

\* template lines 172-256 and 271-276: everything but the loop over the images
PromptBegin(k, mb, default, max, cv) ==
    /\ ppc = "idle"
    /\ pc = "idle"
    /\ version = "template"
    /\ key' = k
    /\ main_bottom' = mb
    /\ max_image_size' = max
    /\ images' = <<>>
    /\ toasts' = 0
    /\ failed' = FALSE
    /\ p_error' = IF Guarded(mb) /\ SingletonRejects(singleton_key, k)
                  THEN "RuntimeError" ELSE NoError
    /\ LET st == WithEntry(session_state, k)
       IN  IF Guarded(mb) /\ SingletonRejects(singleton_key, k)
           THEN /\ ppc' = "raised"
                /\ session_state' = st
                /\ pinned' = FALSE
                /\ invoked' = FALSE
                /\ component_value' = CvNone
                /\ idx' = 0
                /\ p_result' = NoResult
                /\ UNCHANGED singleton_key
           ELSE /\ singleton_key' = IF Guarded(mb) THEN k ELSE singleton_key
                /\ pinned' = Guarded(mb)
                /\ invoked' = TRUE
                /\ component_value' = cv
                /\ IF IsNewMessage(cv, st[k])
                   THEN /\ session_state' = Recorded(st, k, cv.uuid)
                        /\ IF cv.images # <<>>
                           THEN /\ ppc' = "loop"
                                /\ idx' = 1
                                /\ p_result' = NoResult
                           ELSE /\ ppc' = "returned"
                                /\ idx' = 0
                                /\ p_result' = PromptReturn(cv.message, <<>>)
                   ELSE /\ session_state' = st
                        /\ ppc' = "returned"
                        /\ idx' = 0
                        /\ p_result' = None
    /\ UNCHANGED <<rvars, fixed>>

\* prompt(name, key, default=..., main_bottom=..., max_image_size=...); the
\* frontend returns the default payload or a submission
Prompt ==
    \E k \in Keys, mb \in BOOLEAN, default \in Defaults, max \in PromptBudgets :
        \E cv \in {DefaultValue(default)} \cup Submissions :
            PromptBegin(k, mb, default, max, cv)

\* template lines 260-263: the call of _process_image for the next image
PromptProcessImage ==
    /\ ppc = "loop"
    /\ ProcessImageBegin(component_value.images[idx], max_image_size)
    /\ UNCHANGED pvars

\* template lines 264-274: the processed image is kept, or the toast and None
PromptCollect ==
    /\ ppc = "loop"
    /\ pc = "returned"
    /\ IF result.kind = "ImageData"
       THEN /\ images' = Append(images, result)
            /\ IF idx = Len(component_value.images)
               THEN /\ ppc' = "returned"
                    /\ p_result' = PromptReturn(component_value.message,
                                                Append(images, result))
                    /\ UNCHANGED idx
               ELSE /\ idx' = idx + 1
                    /\ UNCHANGED <<ppc, p_result>>
            /\ UNCHANGED <<toasts, failed>>
       ELSE /\ toasts' = toasts + 1
            /\ failed' = TRUE
            /\ p_result' = FailureReturn(component_value.message, images)
            /\ ppc' = "returned"
            /\ UNCHANGED <<images, idx>>
    /\ DropFrame
    /\ UNCHANGED <<fixed, singleton_key, session_state, key, main_bottom,
                   max_image_size, component_value, pinned, invoked, p_error>>

\* an exception of _process_image leaves prompt (no handler)
PromptPropagate ==
    /\ ppc = "loop"
    /\ pc = "raised"
    /\ ppc' = "raised"
    /\ p_error' = error
    /\ DropFrame
    /\ UNCHANGED <<fixed, singleton_key, session_state, key, main_bottom,
                   max_image_size, component_value, images, idx, pinned, invoked,
                   toasts, failed, p_result>>

\* the call has ended; the script goes on and may call prompt again
PromptEnd ==
    /\ ppc \in {"returned", "raised"}
    /\ DropPromptFrame
    /\ UNCHANGED <<rvars, fixed, singleton_key, session_state>>

\* --------------------------------------- prompt, the current revision

StrImageSlash == <<"i", "m", "a", "g", "e", "/">>
StrTextPlain == <<"t", "e", "x", "t", "/", "p", "l", "a", "i", "n">>

\* str.startswith(prefix)
StartsWith(s, prefix) ==
    Len(s) >= Len(prefix) /\ SubSeq(s, 1, Len(prefix)) = prefix

FileData(type, format, data, name) ==
    [kind |-> "FileData", type |-> type, format |-> format, data |-> data,
     name |-> name]

\* (mutant) the slash of the prefix is not tested
HasImagePrefix(f) == StartsWith(f.type, <<"i", "m", "a", "g", "e">>)

\* FileData.is_image and FileData.is_document
is_image(f) == StartsWith(f.type, StrImageSlash)
is_document(f) == ~is_image(f)

\* the current PromptReturn(text=..., files=..., uuid=...); files is an
\* Optional[List]: no_files tells None from a list
FilesPromptReturn(text, files, uuid) ==
    [kind |-> "PromptReturn", text |-> text, files |-> files,
     no_files |-> FALSE, uuid |-> uuid]

\* PromptReturn(text=...): files and uuid are None
TextPromptReturn(text) ==
    [kind |-> "PromptReturn", text |-> text, files |-> <<>>,
     no_files |-> TRUE, uuid |-> StrNone]

\* [f for f in self.files if f.is_image], [... if f.is_document]
ImagesOf(files) == SelectSeq(files, is_image)
DocumentsOf(files) == SelectSeq(files, is_document)

\* not self.files
NotFiles(p) == p.no_files \/ p.files = <<>>

\* the properties PromptReturn.images and PromptReturn.documents
PromptImages(p) == IF NotFiles(p) THEN <<>> ELSE ImagesOf(p.files)
PromptDocuments(p) == IF NotFiles(p) THEN <<>> ELSE DocumentsOf(p.files)

CvFiles(text, files, uuid) ==
    [kind |-> "dict", text |-> text, files |-> files, uuid |-> uuid]

\* one entry of the default payload's files
DefaultEntry(f, name) ==
    [data |-> DataUri(f.type, f.format, f.data), type |-> f.type, name |-> name]

\* current lines 198-235: the default payload sent to the frontend
FilesDefaultValue(default) ==
    LET d == IF default.kind = "str"
             THEN TextPromptReturn(default.value)
             ELSE default
    IN  IF d.kind = "None" THEN CvNone
        ELSE LET imgs == PromptImages(d)
                 files == IF NotFiles(d) THEN <<>> ELSE d.files
             IN  CvFiles(OrEmpty(d.text),
                         [n \in 1..Len(imgs) |-> DefaultEntry(imgs[n], "image")]
                         \o [n \in 1..Len(files) |->
                                DefaultEntry(files[n],
                                    IF Truthy(files[n].name)
                                    THEN files[n].name ELSE "file")],
                         StrNone)

\* (mutant) the stored uuid is not compared
HasUuid(cv, prev) == cv.kind = "dict" /\ cv.uuid # StrNone

\* current lines 279-283
IsNewPromptReturn(cv, prev) ==
    cv.kind = "dict" /\ cv.uuid # prev /\ cv.uuid # StrNone

\* current lines 292-303 and 316-318: one file of the submission decoded
DecodeOk(entry) == entry.kind = "dict" \/ ParseDataUri(entry.value).ok
DecodeFile(entry) ==
    IF entry.kind = "str"
    THEN LET p == ParseDataUri(entry.value)
         IN  FileData(p.type, p.format, p.data, StrNone)
    ELSE FileData(entry.type, entry.format, entry.data, entry.name)

\* current lines 329-337
FilesReturn(cv, processed_files) ==
    IF processed_files = <<>> /\ ~Truthy(cv.text)
    THEN None
    ELSE FilesPromptReturn(cv.text, processed_files, cv.uuid)

\* the current prompt, the whole call (lines 194-339)
PromptCurrent(k, mb, default, cv) ==
    /\ ppc = "idle"
    /\ pc = "idle"
    /\ version = "current"
    /\ key' = k
    /\ main_bottom' = mb
    /\ max_image_size' = 0
    /\ toasts' = 0
    /\ failed' = FALSE
    /\ idx' = 0
    /\ LET st == WithEntry(session_state, k)
       IN  IF Guarded(mb) /\ SingletonRejects(singleton_key, k)
           THEN /\ ppc' = "raised"
                /\ p_error' = "RuntimeError"
                /\ session_state' = st
                /\ pinned' = FALSE
                /\ invoked' = FALSE
                /\ component_value' = CvNone
                /\ images' = <<>>
                /\ p_result' = NoResult
                /\ UNCHANGED singleton_key
           ELSE /\ singleton_key' = IF Guarded(mb) THEN k ELSE singleton_key
                /\ pinned' = Guarded(mb)
                /\ invoked' = TRUE
                /\ component_value' = cv
                /\ IF IsNewPromptReturn(cv, st[k])
                   THEN /\ session_state' = Recorded(st, k, cv.uuid)
                        /\ IF \A n \in 1..Len(cv.files) : DecodeOk(cv.files[n])
                           THEN LET processed_files ==
                                        [n \in 1..Len(cv.files) |-> DecodeFile(cv.files[n])]
                                IN  /\ images' = ImagesOf(processed_files)
                                    /\ p_result' = FilesReturn(cv, processed_files)
                                    /\ ppc' = "returned"
                                    /\ p_error' = NoError
                           ELSE /\ images' = <<>>
                                /\ p_result' = NoResult
                                /\ ppc' = "raised"
                                /\ p_error' = "IndexError"
                   ELSE /\ session_state' = st
                        /\ images' = <<>>
                        /\ ppc' = "returned"
                        /\ p_result' = None
                        /\ p_error' = NoError
    /\ UNCHANGED <<rvars, fixed>>

\* the inputs of the current prompt's calls
MaxFiles == 1
Texts == {"", "hi"}
SubmittedFiles ==
    {[kind |-> "str", value |-> DataUri(StrImagePng, StrBase64, Fill(4, "A"))],
     [kind |-> "str", value |-> <<"x">>],
     [kind |-> "dict", type |-> StrTextPlain, format |-> StrBase64,
      data |-> Fill(4, "A"), name |-> "notes.txt"]}
FileLists == UNION {[1..n -> SubmittedFiles] : n \in 0..MaxFiles}
FilesDefaults ==
    {NoDefault, StrDefault("hi"),
     FilesPromptReturn(StrNone,
        <<FileData(StrImagePng, StrBase64, Fill(4, "A"), StrNone)>>, StrNone)}
FilesSubmissions ==
    {CvFiles(t, l, u) : t \in Texts, l \in FileLists, u \in Uuids}

\* prompt(name, key, default=..., main_bottom=...) of the current revision
PromptFiles ==
    \E k \in Keys, mb \in BOOLEAN, default \in FilesDefaults :
        \E cv \in {FilesDefaultValue(default)} \cup FilesSubmissions :
            PromptCurrent(k, mb, default, cv)

InitPrompt ==
    /\ singleton_key = StrNone
    /\ session_state = [k \in Keys |-> Absent]
    /\ ppc = "idle"
    /\ key = StrNone
    /\ main_bottom = FALSE
    /\ max_image_size = 0
    /\ component_value = CvNone
    /\ images = <<>>
    /\ idx = 0
    /\ pinned = FALSE
    /\ invoked = FALSE
    /\ toasts = 0
    /\ failed = FALSE
    /\ p_result = NoResult
    /\ p_error = NoError

\* no call of prompt has ended
NoPrevious == [key |-> StrNone, uuid |-> StrNone, outcome |-> "", toasts |-> 0]

\* the script threads of the process (one per session)
Threads == {1, 2}
\* a thread that is not inside prompt
IdleThread == [pc |-> "idle", key |-> StrNone, pinned |-> FALSE]

\* no pure function is under observation, no call is remembered, no thread
\* is inside prompt
InitValues ==
    /\ subject = None
    /\ observed = NoResult
    /\ previous = NoPrevious
    /\ threads = [t \in Threads |-> IdleThread]

\* ------------------------------------------------------ specifications

\* direct calls of _process_image
Init == InitReducer /\ InitPrompt /\ InitValues /\ version = "template"

Next ==
    \/ Call
    \/ CompressPass
    \/ ScaleRound
    \/ ReturnFailure
    \/ Finish

Spec == Init /\ [][Next]_vars

\* calls of prompt, of either revision; the template's calls _process_image
InitSession ==
    /\ InitReducer /\ InitPrompt /\ InitValues
    /\ version \in {"template", "current"}

NextPrompt ==
    \/ Prompt
    \/ PromptFiles
    \/ PromptProcessImage
    \/ CompressPass
    \/ ScaleRound
    \/ ReturnFailure
    \/ PromptCollect
    \/ PromptPropagate
    \/ PromptEnd

SpecPrompt == InitSession /\ [][NextPrompt]_vars

\* the steps of a call are taken: the interpreter runs the function to its end
FairSpec ==
    Spec /\ WF_vars(CompressPass) /\ WF_vars(ScaleRound) /\ WF_vars(ReturnFailure)

\* ------------------------------------------- data URIs (SpecUri)

\* a media type with a parameter, as a recorder gives it ("a/w;c=o" for
\* "audio/webm;codecs=opus"), and one holding a colon
StrTypeWithParameter == <<"a", "/", "w", ";", "c", "=", "o">>
StrTypeWithColon == <<"x", ":", "y">>
UriTypes == {StrImagePng, StrTextPlain, StrTypeWithParameter, StrTypeWithColon}
UriFormats == {StrBase64, StrUtf8}
\* base64 text, and text that is not base64
UriPayloads ==
    {Fill(n, "A") : n \in 0..MaxPayloadLen}
        \cup {<<"a", ",", "b">>, <<"a", ";", "b">>, <<"a", ":", "b">>}

\* max_b64_size: int = 5 * 1024 * 1024
DefaultMaxSize == 5 * 1024 * 1024

\* _process_image(image_str) on the data URI of a type, a format and a payload
CallUri ==
    /\ ppc = "idle"
    /\ \E t \in UriTypes, f \in UriFormats, d \in UriPayloads :
           ProcessImageBegin(DataUri(t, f, d), DefaultMaxSize)
    /\ UNCHANGED pvars

\* the current prompt on a submission whose one file is such a data URI
PromptUri ==
    \E t \in UriTypes, f \in UriFormats, d \in UriPayloads, u \in Uuids :
        PromptCurrent("a", FALSE, NoDefault,
            CvFiles("hi", <<[kind |-> "str", value |-> DataUri(t, f, d)]>>, u))

InitUri == InitReducer /\ InitPrompt /\ InitValues /\ version = "current"

NextUri ==
    \/ CallUri
    \/ Finish
    \/ PromptUri
    \/ PromptEnd

SpecUri == InitUri /\ [][NextUri]_vars

\* --------------------------------- PromptReturn values (SpecValues)

StrImage == <<"i", "m", "a", "g", "e">>
ValueTypes == {StrImagePng, StrImageGif, StrTextPlain, StrImage}
ValueNames == {StrNone, "", "n.txt"}
ValueFiles ==
    {FileData(t, StrBase64, Fill(4, "A"), nm) : t \in ValueTypes, nm \in ValueNames}
ValueLists == UNION {[1..n -> ValueFiles] : n \in 0..(MaxFiles + 1)}
\* PromptReturn(text=..., files=[...]) and PromptReturn(text=...)
ValueReturns ==
    {FilesPromptReturn(t, l, StrNone) : t \in {StrNone, "hi"}, l \in ValueLists}
        \cup {TextPromptReturn(t) : t \in {StrNone, "hi"}}
\* the values of prompt's argument default
ValueDefaults == {NoDefault, StrDefault(""), StrDefault("hi")} \cup ValueReturns

\* the caller reads .images and .documents of a PromptReturn
ReadProperties ==
    /\ subject.kind = "PromptReturn"
    /\ observed = NoResult
    /\ observed' = [kind |-> "properties",
                    images |-> PromptImages(subject),
                    documents |-> PromptDocuments(subject)]
    /\ UNCHANGED <<rvars, version, subject, previous, threads, singleton_key,
                   session_state, ppc,
                   key, main_bottom, max_image_size, component_value, images,
                   idx, pinned, invoked, toasts, failed, p_result, p_error>>

\* current lines 198-235: prompt builds default_value from its argument
MarshalDefault ==
    /\ observed = NoResult
    /\ observed' = [kind |-> "default_value", value |-> FilesDefaultValue(subject)]
    /\ UNCHANGED <<rvars, version, subject, previous, threads, singleton_key,
                   session_state, ppc,
                   key, main_bottom, max_image_size, component_value, images,
                   idx, pinned, invoked, toasts, failed, p_result, p_error>>

InitSubject ==
    /\ InitReducer /\ InitPrompt
    /\ version = "current"
    /\ subject \in ValueDefaults
    /\ observed = NoResult
    /\ previous = NoPrevious
    /\ threads = [t \in Threads |-> IdleThread]

NextValues ==
    \/ ReadProperties
    \/ MarshalDefault

SpecValues == InitSubject /\ [][NextValues]_vars

\* ------------------------------------------------ reruns (SpecRerun)

RerunKeys == {"a", "b"}
RerunImageLists == {<<>>, <<BigRgb>>, <<BigRgba>>}
RerunSubmissions ==
    {Cv(m, l, u) : m \in Messages, l \in RerunImageLists, u \in Uuids}

\* the script reruns and calls the template's prompt; the frontend returns
\* the default payload or a submission
Rerun ==
    \E k \in RerunKeys, default \in Defaults, max \in PromptBudgets :
        \E cv \in {DefaultValue(default)} \cup RerunSubmissions :
            PromptBegin(k, FALSE, default, max, cv)

\* the same for the current prompt
RerunFiles ==
    \E k \in RerunKeys, default \in FilesDefaults :
        \E cv \in {FilesDefaultValue(default)} \cup FilesSubmissions :
            PromptCurrent(k, FALSE, default, cv)

\* the call has ended; what it was given and what came of it is remembered
RerunEnd ==
    /\ ppc \in {"returned", "raised"}
    /\ previous' =
          [key |-> key,
           uuid |-> IF component_value.kind = "dict"
                    THEN component_value.uuid ELSE StrNone,
           outcome |-> IF ppc = "raised" THEN "raised"
                       ELSE IF p_result = None THEN "None" ELSE "PromptReturn",
           toasts |-> toasts]
    /\ DropPromptFrame
    /\ UNCHANGED <<rvars, version, subject, observed, threads, singleton_key,
                   session_state>>

NextRerun ==
    \/ Rerun
    \/ RerunFiles
    \/ PromptProcessImage
    \/ CompressPass
    \/ ScaleRound
    \/ ReturnFailure
    \/ PromptCollect
    \/ PromptPropagate
    \/ RerunEnd

SpecRerun == InitSession /\ [][NextRerun]_vars

\* ------------------------------------- two sessions (SpecThreads)

ThreadKeys == {"a", "b"}

\* what a step of the guard leaves alone: each session's own state
unshared ==
    <<rvars, version, subject, observed, previous, session_state, ppc, key,
      main_bottom, max_image_size, component_value, images, idx, pinned,
      invoked, toasts, failed, p_result, p_error>>

\* the session's script calls prompt(..., key=k, main_bottom=True) and
\* reaches line 237
ThreadCall(t) ==
    /\ threads[t].pc = "idle"
    /\ \E k \in ThreadKeys :
           threads' = [threads EXCEPT ![t] =
                          [pc |-> "test", key |-> k, pinned |-> FALSE]]
    /\ UNCHANGED <<singleton_key, unshared>>

\* line 240, left operand: the global is read and its truth value tested
ThreadTest(t) ==
    /\ threads[t].pc = "test"
    /\ threads' = [threads EXCEPT ![t].pc =
                      IF Truthy(singleton_key) THEN "compare" ELSE "assign"]
    /\ UNCHANGED <<singleton_key, unshared>>

\* line 240, right operand: the global is read again and compared with key;
\* lines 241-244 raise
ThreadCompare(t) ==
    /\ threads[t].pc = "compare"
    /\ threads' = [threads EXCEPT ![t].pc =
                      IF singleton_key # threads[t].key THEN "raised" ELSE "assign"]
    /\ UNCHANGED <<singleton_key, unshared>>

\* line 245: _prompt_main_singleton_key = key
ThreadAssign(t) ==
    /\ threads[t].pc = "assign"
    /\ singleton_key' = threads[t].key
    /\ threads' = [threads EXCEPT ![t].pc = "pin"]
    /\ UNCHANGED unshared

\* line 247: pin_bottom(key)
ThreadPin(t) ==
    /\ threads[t].pc = "pin"
    /\ threads' = [threads EXCEPT ![t].pc = "done", ![t].pinned = TRUE]
    /\ UNCHANGED <<singleton_key, unshared>>

\* the rest of the call works on the session's own state; the call ends or
\* the RuntimeError leaves it
ThreadEnd(t) ==
    /\ threads[t].pc \in {"done", "raised"}
    /\ threads' = [threads EXCEPT ![t] = IdleThread]
    /\ UNCHANGED <<singleton_key, unshared>>

NextThreads ==
    \E t \in Threads :
        \/ ThreadCall(t)
        \/ ThreadTest(t)
        \/ ThreadCompare(t)
        \/ ThreadAssign(t)
        \/ ThreadPin(t)
        \/ ThreadEnd(t)

SpecThreads == InitUri /\ [][NextThreads]_vars

\* ------------------------------------------------------------ the claims

Ended == pc \in {"returned", "raised"}
Last == attempts[Len(attempts)]
AlphaModes == {"RGBA", "LA"}

\* C1: every ImageData that _process_image returns has a base64 payload no
\* longer than max_b64_size, on the unchanged path, after a compression-only
\* pass and after a scale round.
C1_ResultWithinBudget ==
    (pc = "returned" /\ result.kind = "ImageData")
        => Len(result.data) <= max_b64_size

C1_Witness ==
    /\ pc = "returned"
    /\ result.kind = "ImageData"
    /\ attempts # <<>>
    /\ Last.phase = "scale"
    /\ max_b64_size = 7

\* C2: a data URI data:<type>;<format>,<payload> whose payload is at or under
\* the budget is returned as ImageData(type, format, payload) with no decode
\* and no encode, and reducing the result again returns the same result.
C2_UnchangedUnderBudget ==
    \A t \in MediaTypes, f \in Formats, d \in Payloads :
        (pc # "idle" /\ image_str = DataUri(t, f, d) /\ Len(d) <= max_b64_size)
            => /\ pc = "returned"
               /\ result = ImageData(t, f, d)
               /\ attempts = <<>>
               /\ img = NoImage
               /\ EarlyReturn(DataUri(result.type, result.format, result.data),
                              max_b64_size) = result

C2_Witness ==
    /\ pc = "returned"
    /\ result.kind = "ImageData"
    /\ attempts = <<>>
    /\ Len(result.data) = max_b64_size

\* C3: when all 3 compression-only passes and all 5 scale rounds exceeded the
\* budget the call returns None, never the last attempt's payload; None is
\* returned in no other case.
C3_ExhaustionReturnsNone ==
    /\ (pc = "returned" /\ attempts # <<>>
          /\ \A n \in 1..Len(attempts) : attempts[n].size > max_b64_size)
        => result = None
    /\ (pc = "returned" /\ result = None)
        => (Len(attempts) = 8
            /\ \A n \in 1..Len(attempts) : attempts[n].size > max_b64_size)

C3_Witness ==
    pc = "returned" /\ result = None /\ Len(attempts) = 8

\* C4 (as claimed): no JPEG encode is attempted on an image whose mode has an
\* alpha channel (RGBA, LA).
C4_NoEncodeOfAlpha ==
    \A n \in 1..Len(attempts) : attempts[n].mode \notin AlphaModes

\* C5 (as claimed): a call on a payload that is not a valid image ends in a
\* raised decode error, whatever the payload's size.
C5_CorruptAlwaysRaises ==
    \A t \in MediaTypes, f \in Formats, d \in Payloads :
        (Ended /\ image_str = DataUri(t, f, d) /\ ~DecodedImage(d).valid)
            => (pc = "raised" /\ error = "DecodeError")

\* C5 (amended): a call on a payload over the budget that is not a valid image
\* ends in a raised decode error, with nothing returned and no encode tried;
\* a payload at or under the budget is returned without being decoded.
C5_OverBudgetCorruptRaises ==
    \A t \in MediaTypes, f \in Formats, d \in Payloads :
        (pc # "idle" /\ image_str = DataUri(t, f, d) /\ ~DecodedImage(d).valid)
            => IF Len(d) > max_b64_size
               THEN /\ pc = "raised"
                    /\ error = "DecodeError"
                    /\ result = NoResult
                    /\ attempts = <<>>
               ELSE /\ pc = "returned"
                    /\ result = ImageData(t, f, d)
                    /\ img = NoImage

C5_Witness ==
    /\ pc = "raised"
    /\ error = "DecodeError"
    /\ Len(image_str) > 0

\* C6 (as claimed): when the JPEG encoder rejects the image, the call returns
\* None, as it does when the budget cannot be reached, and raises nothing.
C6_RejectedEncodeReturnsNone ==
    (Ended /\ attempts # <<>> /\ ~Last.encoded)
        => (pc = "returned" /\ result = None /\ error = NoError)

\* at most 3 compression-only encodes, then at most 5 scale encodes, never a
\* compression-only one after a scale one
C7_Bounded ==
    /\ Cardinality({n \in 1..Len(attempts) : attempts[n].phase = "compress"}) <= 3
    /\ Cardinality({n \in 1..Len(attempts) : attempts[n].phase = "scale"}) <= 5
    /\ \A m, n \in 1..Len(attempts) :
          (m < n /\ attempts[m].phase = "scale") => attempts[n].phase = "scale"

\* C7: the bounds above hold in every state, and a call that has started
\* ends: it returns or raises.
C7_Terminates ==
    /\ []C7_Bounded
    /\ (pc \in {"compress", "scale", "exhausted"}) ~> Ended

C7_Witness ==
    Ended /\ i = 3 /\ attempt = 5

\* C8: the attempts are the prefix of the ladder (qualities 100, 90, 80, then
\* scale rounds 1..5) that ends at the first attempt within the budget: every
\* attempt before the last one exceeded the budget, and a returned ImageData
\* is the last attempt's payload.
C8_OrderedShortCircuit ==
    /\ Len(attempts) <= 8
    /\ \A n \in 1..Len(attempts) :
          /\ n <= 3 => (attempts[n].phase = "compress"
                        /\ attempts[n].quality = <<100, 90, 80>>[n])
          /\ n > 3 => attempts[n].phase = "scale"
          /\ n < Len(attempts) =>
                (attempts[n].encoded /\ attempts[n].size > max_b64_size)
    /\ (pc = "returned" /\ result.kind = "ImageData" /\ attempts # <<>>)
        => (Last.encoded /\ Last.size <= max_b64_size
            /\ Len(result.data) = Last.size)
    /\ (pc = "returned" /\ result = None) => Len(attempts) = 8

C8_Witness ==
    /\ pc = "returned"
    /\ result.kind = "ImageData"
    /\ Len(attempts) = 5

\* C9: in the template's prompt, when _process_image returned None for an
\* image the call shows one toast and returns None; a returned PromptReturn
\* holds one image per submitted image, each within the budget.
C9_FailureDiscardsSubmission ==
    /\ (ppc = "returned" /\ failed)
        => (p_result = None /\ toasts = 1)
    /\ ppc = "raised" => p_result = NoResult
    /\ (version = "template" /\ ppc = "returned" /\ p_result.kind = "PromptReturn")
        => /\ ~failed
           /\ Len(p_result.images) = Len(component_value.images)
           /\ \A n \in 1..Len(p_result.images) :
                 Len(p_result.images[n].data) <= max_image_size

C9_Witness ==
    /\ ppc = "returned"
    /\ failed
    /\ Len(images) = 1
    /\ Len(component_value.images) = 2

\* C10 (as claimed): once a main-bottom key is registered it never changes.
C10_RegisteredKeyNeverChanges ==
    [][singleton_key # StrNone => singleton_key' = singleton_key]_vars

\* C12: every encode of the compression-only pass, and so every result it
\* produces, has the pixel width and height of the decoded original; only
\* scale rounds encode other dimensions.
C12_CompressKeepsDimensions ==
    /\ \A n \in 1..Len(attempts) :
          attempts[n].phase = "compress"
              => (attempts[n].width = img.width /\ attempts[n].height = img.height)
    /\ \A n \in 1..Len(attempts) :
          (attempts[n].width # img.width \/ attempts[n].height # img.height)
              => attempts[n].phase = "scale"

C12_Witness ==
    /\ pc = "returned"
    /\ result.kind = "ImageData"
    /\ attempts # <<>>
    /\ Last.phase = "compress"
    /\ Last.width = 8000
    /\ Last.height = 6000

RECURSIVE Pow(_, _)
Pow(b, k) == IF k = 0 THEN 1 ELSE b * Pow(b, k - 1)

\* floor(x * 0.95^k) for k >= 1, as a mathematical value
Floor95(x, k) ==
    LET y == x * Pow(19, k - 1)
    IN  (y \div Pow(20, k)) * 19 + ((y % Pow(20, k)) * 19) \div Pow(20, k)

\* the number of the scale round that made attempt n
Round(n) == n - Cardinality({m \in 1..Len(attempts) : attempts[m].phase = "compress"})

\* C13 (as claimed): the encode of scale round k has the dimensions
\* (floor(W * 0.95^k), floor(H * 0.95^k)) of the original W and H.
C13_ScaleIsExactFloor ==
    \A n \in 1..Len(attempts) :
        attempts[n].phase = "scale"
            => /\ attempts[n].width = Floor95(img.width, Round(n))
               /\ attempts[n].height = Floor95(img.height, Round(n))

\* int(x * scale_factor) of round k in binary64 arithmetic: the floor, less
\* one where x * 0.95^k is integral and k >= 3
Int95(x, k) ==
    IF k >= 3 /\ x % Pow(20, k) = 0 THEN Floor95(x, k) - 1 ELSE Floor95(x, k)

\* C13 (amended): the encode of scale round k has the dimensions
\* int(W * s_k), int(H * s_k) taken from the original W and H (the rounding
\* of one round does not enter the next), where s_k is the float product;
\* a result comes from the first round within the budget, and when none of
\* the 5 rounds fits the call returns None.
C13_ScaleFromOriginal ==
    /\ \A n \in 1..Len(attempts) :
          attempts[n].phase = "scale"
              => /\ Round(n) \in 1..5
                 /\ attempts[n].width = Int95(img.width, Round(n))
                 /\ attempts[n].height = Int95(img.height, Round(n))
                 /\ n < Len(attempts) => attempts[n].size > max_b64_size
    /\ (pc = "returned" /\ attempts # <<>> /\ Last.phase = "scale")
          => IF Last.size <= max_b64_size
             THEN result.kind = "ImageData" /\ Len(result.data) = Last.size
             ELSE Round(Len(attempts)) = 5 /\ result = None

C13_Witness ==
    /\ pc = "returned"
    /\ result.kind = "ImageData"
    /\ Len(attempts) = 6
    /\ img.width = 8000
    /\ Last.width = 6858
    /\ Last.height = 5144

\* C14: a result that was re-encoded has media type "image/jpeg" and
\* encoding "base64", whatever the input's media type; a result returned
\* without an encode keeps the input's own media type and encoding.
C14_ResultMediaType ==
    /\ (pc = "returned" /\ result.kind = "ImageData" /\ attempts # <<>>)
          => (result.type = StrImageJpeg /\ result.format = StrBase64)
    /\ \A t \in MediaTypes, f \in Formats, d \in Payloads :
          (pc = "returned" /\ attempts = <<>> /\ image_str = DataUri(t, f, d))
              => (result.kind = "ImageData" /\ result.type = t /\ result.format = f)

C14_Witness ==
    /\ pc = "returned"
    /\ result.kind = "ImageData"
    /\ attempts # <<>>
    /\ ParseDataUri(image_str).type = StrImageGif
    /\ ParseDataUri(image_str).format = StrUtf8
    /\ result.type = StrImageJpeg

\* C19: scale round k encodes at quality q_k with q_1 = 95 and
\* q_(k+1) = floor(0.95 * q_k), that is 95, 90, 85, 80, 76: strictly
\* decreasing and within 1..100; after every failed round both the scale
\* factor and the quality are reduced.
C19_QualityLadder ==
    /\ \A n \in 1..Len(attempts) :
          attempts[n].phase = "scale"
              => /\ attempts[n].quality = <<95, 90, 85, 80, 76>>[Round(n)]
                 /\ attempts[n].quality \in 1..100
                 /\ \A m \in 1..(n - 1) :
                       attempts[m].phase = "scale"
                           => attempts[m].quality > attempts[n].quality
    /\ pc = "scale"
          => /\ quality = <<95, 90, 85, 80, 76>>[attempt + 1]
             /\ scale_factor = <<Pow(19, attempt + 1), Pow(20, attempt + 1)>>
             /\ Len(attempts) = 3 + attempt

C19_Witness ==
    /\ Len(attempts) = 8
    /\ Last.phase = "scale"
    /\ Last.quality = 76
    /\ Last.encoded

\* C15 (as claimed): for every media type, encoding and payload, parsing the
\* string data:<type>;<format>,<data> gives back that type, format and data,
\* in _process_image and in the string branch of prompt's file decoding.
C15_RoundTrip ==
    \A t \in UriTypes, f \in UriFormats, d \in UriPayloads :
        /\ (pc # "idle" /\ image_str = DataUri(t, f, d))
              => (pc = "returned" /\ result = ImageData(t, f, d))
        /\ (ppc \in {"returned", "raised"} /\ p_result # None
              /\ component_value.kind = "dict"
              /\ component_value.files[1].value = DataUri(t, f, d))
              => (ppc = "returned"
                  /\ p_result.files = <<FileData(t, f, d, StrNone)>>)

\* the elements of l at the positions where keep is TRUE, in order
RECURSIVE Picked(_, _)
Picked(l, keep) ==
    IF l = <<>> THEN <<>>
    ELSE (IF keep[1] THEN <<l[1]>> ELSE <<>>)
            \o Picked(Tail(l), Tail(keep))

\* C16: images and documents partition files: a file is in images exactly
\* when its type starts with "image/" and in documents otherwise, each list
\* keeps the files' relative order, and both are empty when files is None or
\* empty.
C16_ImagesDocumentsPartition ==
    observed.kind = "properties"
        => LET files == subject.files
               isimg == [n \in 1..Len(files) |->
                            Len(files[n].type) >= 6
                            /\ SubSeq(files[n].type, 1, 6) = StrImageSlash]
           IN  IF subject.no_files \/ files = <<>>
               THEN observed.images = <<>> /\ observed.documents = <<>>
               ELSE /\ observed.images = Picked(files, isimg)
                    /\ observed.documents =
                          Picked(files, [n \in 1..Len(files) |-> ~isimg[n]])
                    /\ Len(observed.images) + Len(observed.documents) = Len(files)

C16_Witness ==
    /\ observed.kind = "properties"
    /\ Len(observed.images) = 1
    /\ Len(observed.documents) = 1
    /\ observed.documents[1].type = StrImage
    /\ subject.files[1].type = StrImage

\* C18 (as claimed): the default payload holds exactly one entry per element
\* of default.files, in the same order, each with its type and data URI; its
\* text is default.text or "", its uuid is None; a str default is sent as
\* its text with an empty files list.
C18_OneEntryPerFile ==
    (observed.kind = "default_value" /\ subject.kind # "None")
        => LET v == observed.value
               files == IF subject.kind = "str" \/ subject.no_files
                        THEN <<>> ELSE subject.files
           IN  /\ v.kind = "dict"
               /\ v.uuid = StrNone
               /\ v.text = IF subject.kind = "str" THEN subject.value
                           ELSE IF subject.text = StrNone THEN "" ELSE subject.text
               /\ Len(v.files) = Len(files)
               /\ \A n \in 1..Len(v.files) :
                     /\ v.files[n].type = files[n].type
                     /\ v.files[n].data =
                           DataUri(files[n].type, files[n].format, files[n].data)

\* the call in progress was given a submission (a value with a uuid)
GivenSubmission ==
    /\ ppc # "idle"
    /\ invoked
    /\ component_value.kind = "dict"
    /\ component_value.uuid # StrNone

\* the call in progress was given the uuid that the call before it was
\* given, under the same key
Redelivered ==
    /\ GivenSubmission
    /\ previous.key = key
    /\ previous.uuid = component_value.uuid

\* C11: of consecutive calls of the current prompt under one key that are
\* given the same non-null uuid, only the first returns a PromptReturn (it
\* does whenever the submission has text and its files decode, the call
\* before it having been given no or another uuid); each following call
\* returns None.
C11_DeliveredOnce ==
    /\ (version = "current" /\ Redelivered)
          => (ppc = "returned" /\ p_result = None /\ p_error = NoError)
    /\ (version = "current" /\ GivenSubmission
          /\ \/ previous = NoPrevious
             \/ previous.key = key
                /\ previous.uuid \notin {component_value.uuid, StrNone}
          /\ component_value.text = "hi"
          /\ \A n \in 1..Len(component_value.files) :
                component_value.files[n].kind = "dict"
                    \/ ParseDataUri(component_value.files[n].value).ok)
          => (ppc = "returned" /\ p_result.kind = "PromptReturn"
              /\ p_result.uuid = component_value.uuid
              /\ p_result.text = "hi")

C11_Witness ==
    /\ version = "current"
    /\ Redelivered
    /\ previous.outcome = "PromptReturn"
    /\ component_value.text = "hi"
    /\ p_result = None

\* C20: a uuid is stored as the key's previous uuid by the call that is first
\* given it, whatever that call returns; when that call returned None (or
\* raised), a following call given the same uuid returns None, processes
\* nothing and shows no toast.
C20_ConsumedWhenSeen ==
    /\ GivenSubmission => session_state[key] = component_value.uuid
    /\ (Redelivered /\ previous.outcome # "PromptReturn")
          => /\ ppc = "returned"
             /\ p_result = None
             /\ p_error = NoError
             /\ pc = "idle"
             /\ images = <<>>
             /\ toasts = 0
             /\ ~failed

C20_Witness ==
    /\ version = "template"
    /\ Redelivered
    /\ previous.outcome = "None"
    /\ previous.toasts = 1
    /\ ppc = "returned"
    /\ p_result = None
    /\ toasts = 0

\* C17 (as claimed): in both revisions a component value whose uuid is None
\* (the default payload) makes prompt return None and leaves the key's stored
\* previous uuid as the call before left it.
C17_DefaultNeverReturned ==
    (ppc # "idle" /\ invoked /\ component_value.kind = "dict"
       /\ component_value.uuid = StrNone)
        => /\ ppc = "returned"
           /\ p_result = None
           /\ (previous.key = key /\ previous.uuid # StrNone)
                 => session_state[key] = previous.uuid

C22_GuardHoldsUnderThreads ==
    \A t1, t2 \in Threads :
        (threads[t1].pc \in {"assign", "pin", "done"}
           /\ threads[t2].pc \in {"assign", "pin", "done"})
            => threads[t1].key = threads[t2].key

====
